---- MODULE Spec2Model ----
(***************************************************************************)
(* The Index page of src/src/pages/Index.tsx (first copy, lines 1-650):    *)
(* duration-limit resolution from the entry link and the remote config,    *)
(* the call-session controller (startCall / requestMedia / timer effect /  *)
(* endCall / toggles / unmount cleanup), the audio sync effect and the     *)
(* guided chat (package, contact, summary, link).                          *)
(*                                                                         *)
(* React semantics used throughout:                                        *)
(*  - a handler's setState calls are batched and committed together, and   *)
(*    the effects whose dependencies changed run with that commit;         *)
(*  - an update enqueued by the interval callback is applied at the next   *)
(*    render; a click in between is rendered first, and the interval's     *)
(*    updater is then re-applied on top of the state it was enqueued on;   *)
(*  - an updater is evaluated by the render or, when the component has no  *)
(*    pending update, already at dispatch; setState calls made inside an   *)
(*    updater are applied after its return value in the first case and     *)
(*    before it in the second, and both are explored;                      *)
(*  - setState on an unmounted component does nothing, refs stay writable. *)
(*                                                                         *)
(* A nullable number (number | null) is the empty set or a singleton.      *)
(***************************************************************************)
EXTENDS Integers, Sequences, FiniteSets, TLC

\* ---------------------------------------------------------------- bounds

\* longest seconds= value of the entry link that is enumerated
MaxParamLen == 2
\* ticks of one session that are explored (the default limit is 1800)
MaxElapsed == 4

\* ------------------------------------------------------------- constants

CALL_DURATION_LIMIT_MINUTES == 30

Null == "null"
None == {}
Some(n) == {n}
Val(o) == CHOOSE v \in o : TRUE

HumanMessage == "Nao foi possivel acessar sua camera ou microfone. Verifique as permissoes do navegador."

\* ------------------------------------------------- the entry link's value

Digits == {"0", "1", "2", "3", "4", "5", "6", "7", "8", "9"}
ParamChars == {"0", "1", "2", "-", "a"}

DigitValue(c) ==
  CASE c = "0" -> 0 [] c = "1" -> 1 [] c = "2" -> 2 [] c = "3" -> 3
    [] c = "4" -> 4 [] c = "5" -> 5 [] c = "6" -> 6 [] c = "7" -> 7
    [] c = "8" -> 8 [] c = "9" -> 9

StringsUpTo(n) == UNION {[1..k -> ParamChars] : k \in 0..n}

\* params.get("seconds"): null (None) when the link has no such parameter
Params == {None} \cup {Some(str) : str \in StringsUpTo(MaxParamLen)}

RECURSIVE DigitPrefix(_)
DigitPrefix(s) ==
  IF s = <<>> \/ Head(s) \notin Digits THEN <<>>
  ELSE <<Head(s)>> \o DigitPrefix(Tail(s))

RECURSIVE DecimalValue(_, _)
DecimalValue(acc, ds) ==
  IF ds = <<>> THEN acc
  ELSE DecimalValue(acc * 10 + DigitValue(Head(ds)), Tail(ds))

\* parseInt(s, 10): optional sign, then the longest run of digits; NaN (None)
\* when there is no digit
ParseInt(s) ==
  LET signed == s # <<>> /\ Head(s) \in {"-", "+"}
      body   == IF signed THEN Tail(s) ELSE s
      ds     == DigitPrefix(body)
      mag    == DecimalValue(0, ds)
  IN IF ds = <<>> THEN None
     ELSE IF signed /\ Head(s) = "-" THEN Some(0 - mag) ELSE Some(mag)

\* a JavaScript string in a condition: null and "" are falsy
Truthy(p) == p # None /\ Val(p) # <<>>

\* ------------------------------------------------------------------ state

VARIABLES
  secondsParam,          \* window.location.search, seconds=
  inCall, connecting, duration, mediaState, permissionError,
  configVideoUrl, configAudioUrl, durationLimitSeconds, hasDurationParam,
  selfStreamRef,         \* None or the index of a stream in streams
  timerRef,              \* None or the id of an interval
  intervals,             \* the browser's live intervals: [id, limit]
  timersCreated,         \* window.setInterval calls so far (the last id)
  streams,               \* the MediaStreams getUserMedia has returned
  mounted,               \* the component is mounted
  mediaPending,          \* a getUserMedia promise is pending
  configPending,         \* the call_config query is pending
  pendingTick,           \* None, or the limit of the interval whose updater is enqueued
  skippedBase,           \* the duration the enqueued updater applies to, when a
                         \* click was rendered before it
  startCalls, endCalls,  \* history: invocations of startCall, endCall
  ticks,                 \* history: interval updaters applied since the session began
  hungUp, lateTicks,     \* history: the hangup button was clicked; updaters applied after it
  loadedConfig,          \* history: the record loadConfig applied (None: none)
  clears,                \* history: clearInterval calls on each interval, by id
  eagerTick,             \* the enqueued updater was evaluated at dispatch, before the render
  syncAttached,          \* the play/pause/timeupdate listeners are on the rendered remote video
  chatStep,              \* ChatStep
  selectedPackage,       \* the selected PackageOption, or none
  contactChannel,        \* "whatsapp", "telegram", "email" or null
  contactValue,          \* the text of the contact input
  isTyping,              \* the typing indicator
  openedLink,            \* history: the links given to window.open by the last Generate
  backPath               \* history: Back from the summary ("back"), then an edit ("edited")

vars == <<secondsParam, inCall, connecting, duration, mediaState, permissionError,
          configVideoUrl, configAudioUrl, durationLimitSeconds, hasDurationParam,
          selfStreamRef, timerRef, intervals, timersCreated, streams, mounted,
          mediaPending, configPending, pendingTick, skippedBase,
          startCalls, endCalls, ticks, hungUp, lateTicks, loadedConfig,
          clears,
          eagerTick,
          syncAttached,
          chatStep,
          selectedPackage,
          contactChannel,
          contactValue,
          isTyping,
          openedLink,
          backPath>>

\* the component's state, refs and environment as one record, so that a
\* handler is a function from state to state
Cur ==
  [inCall |-> inCall, connecting |-> connecting, duration |-> duration,
   mediaState |-> mediaState, permissionError |-> permissionError,
   configVideoUrl |-> configVideoUrl, configAudioUrl |-> configAudioUrl,
   durationLimitSeconds |-> durationLimitSeconds,
   hasDurationParam |-> hasDurationParam,
   selfStreamRef |-> selfStreamRef, timerRef |-> timerRef,
   intervals |-> intervals, timersCreated |-> timersCreated,
   streams |-> streams, mounted |-> mounted,
   mediaPending |-> mediaPending, configPending |-> configPending,
   pendingTick |-> pendingTick, skippedBase |-> skippedBase,
   startCalls |-> startCalls, endCalls |-> endCalls, ticks |-> ticks,
   hungUp |-> hungUp, lateTicks |-> lateTicks,
   loadedConfig |-> loadedConfig,
   clears |-> clears,
   eagerTick |-> eagerTick,
   syncAttached |-> syncAttached,
   chatStep |-> chatStep,
   selectedPackage |-> selectedPackage,
   contactChannel |-> contactChannel,
   contactValue |-> contactValue,
   isTyping |-> isTyping,
   openedLink |-> openedLink,
   backPath |-> backPath]

Commit(s) ==
  /\ inCall' = s.inCall /\ connecting' = s.connecting /\ duration' = s.duration
  /\ mediaState' = s.mediaState /\ permissionError' = s.permissionError
  /\ configVideoUrl' = s.configVideoUrl /\ configAudioUrl' = s.configAudioUrl
  /\ durationLimitSeconds' = s.durationLimitSeconds
  /\ hasDurationParam' = s.hasDurationParam
  /\ selfStreamRef' = s.selfStreamRef /\ timerRef' = s.timerRef
  /\ intervals' = s.intervals /\ timersCreated' = s.timersCreated
  /\ streams' = s.streams /\ mounted' = s.mounted
  /\ mediaPending' = s.mediaPending /\ configPending' = s.configPending
  /\ pendingTick' = s.pendingTick /\ skippedBase' = s.skippedBase
  /\ startCalls' = s.startCalls /\ endCalls' = s.endCalls /\ ticks' = s.ticks
  /\ hungUp' = s.hungUp /\ lateTicks' = s.lateTicks
  /\ loadedConfig' = s.loadedConfig
  /\ clears' = s.clears
  /\ eagerTick' = s.eagerTick
  /\ syncAttached' = s.syncAttached
  /\ chatStep' = s.chatStep
  /\ selectedPackage' = s.selectedPackage
  /\ contactChannel' = s.contactChannel
  /\ contactValue' = s.contactValue
  /\ isTyping' = s.isTyping
  /\ openedLink' = s.openedLink
  /\ backPath' = s.backPath
  /\ UNCHANGED secondsParam

\* the useState / useRef initial values
InitialState ==
  [inCall |-> FALSE, connecting |-> FALSE, duration |-> 0,
   mediaState |-> [micOn |-> TRUE, camOn |-> TRUE], permissionError |-> Null,
   configVideoUrl |-> Null, configAudioUrl |-> Null,
   durationLimitSeconds |-> None, hasDurationParam |-> FALSE,
   selfStreamRef |-> None, timerRef |-> None,
   intervals |-> {}, timersCreated |-> 0, streams |-> <<>>, mounted |-> TRUE,
   mediaPending |-> FALSE, configPending |-> FALSE,
   pendingTick |-> None, skippedBase |-> None,
   startCalls |-> 0, endCalls |-> 0, ticks |-> 0,
   hungUp |-> FALSE, lateTicks |-> 0, loadedConfig |-> None,
   clears |-> <<>>,
   eagerTick |-> FALSE,
   syncAttached |-> FALSE,
   chatStep |-> "intro",
   selectedPackage |-> None,
   contactChannel |-> Null,
   contactValue |-> <<>>,
   isTyping |-> FALSE,
   openedLink |-> None,
   backPath |-> "fresh"]

\* --------------------------------------------------- media streams, timers

\* getUserMedia({video, audio}): one live, enabled track of each kind
NewTrack == [enabled |-> TRUE, live |-> TRUE, stops |-> 0]
NewStream == [audio |-> NewTrack, video |-> NewTrack]

StopTrack(tr) == [tr EXCEPT !.live = FALSE, !.stops = @ + 1]

\* mutant of stopMediaTracks: the tracks are stopped, the handle is kept
stopMediaTracks_KeepsHandle(s) ==
  IF s.selfStreamRef # None
  THEN [s EXCEPT !.streams[Val(s.selfStreamRef)] =
                     [audio |-> StopTrack(@.audio), video |-> StopTrack(@.video)]]
  ELSE s

\* stopMediaTracks: stop every track of the handle and drop the handle
stopMediaTracks(s) ==
  IF s.selfStreamRef # None
  THEN [s EXCEPT !.streams[Val(s.selfStreamRef)] =
                     [audio |-> StopTrack(@.audio), video |-> StopTrack(@.video)],
                 !.selfStreamRef = None]
  ELSE s

\* mutant of ClearTimer: the interval is cleared, timerRef.current is kept
ClearTimer_KeepsRef(s) ==
  IF s.timerRef # None
  THEN [s EXCEPT !.intervals = {t \in @ : t.id # Val(s.timerRef)},
                 !.clears[Val(s.timerRef)] = @ + 1]
  ELSE s

\* if (timerRef.current) { window.clearInterval(timerRef.current); timerRef.current = null; }
ClearTimer(s) ==
  IF s.timerRef # None
  THEN [s EXCEPT !.intervals = {t \in @ : t.id # Val(s.timerRef)},
                 !.clears[Val(s.timerRef)] = @ + 1,
                 !.timerRef = None]
  ELSE s

\* mutant of endCall: setDuration(0) is missing
endCall_KeepsDuration(s) ==
  LET s1 == [s EXCEPT !.inCall = FALSE, !.endCalls = @ + 1]
  IN ClearTimer(stopMediaTracks(s1))

\* endCall: setInCall(false); setDuration(0); stopMediaTracks(); clear the timer
endCall(s) ==
  LET s1 == [s EXCEPT !.inCall = FALSE, !.duration = 0, !.endCalls = @ + 1]
  IN ClearTimer(stopMediaTracks(s1))

\* mutant of effectiveLimitSeconds: the default is taken in minutes
effectiveLimitSeconds_Minutes(s) ==
  IF s.durationLimitSeconds # None THEN Val(s.durationLimitSeconds)
  ELSE CALL_DURATION_LIMIT_MINUTES

\* durationLimitSeconds ?? CALL_DURATION_LIMIT_MINUTES * 60
effectiveLimitSeconds(s) ==
  IF s.durationLimitSeconds # None THEN Val(s.durationLimitSeconds)
  ELSE CALL_DURATION_LIMIT_MINUTES * 60

\* mutant of TimerEffect: the previous run's cleanup is missing
TimerEffect_NoCleanup(prev, s) ==
  IF prev.inCall = s.inCall /\ prev.durationLimitSeconds = s.durationLimitSeconds
  THEN s
  ELSE IF ~s.inCall THEN s
       ELSE [s EXCEPT !.timersCreated = @ + 1,
                      !.clears = Append(@, 0),
                      !.timerRef = Some(s.timersCreated + 1),
                      !.intervals = @ \cup {[id |-> s.timersCreated + 1,
                                             limit |-> effectiveLimitSeconds(s)]}]

\* the timer effect, deps [inCall, durationLimitSeconds]: when a dependency
\* changed, the previous run's cleanup (there is one only if that run got
\* past "if (!inCall) return") and then the effect body
TimerEffect(prev, s) ==
  IF prev.inCall = s.inCall /\ prev.durationLimitSeconds = s.durationLimitSeconds
  THEN s
  ELSE LET c == IF prev.inCall THEN ClearTimer(s) ELSE s
       IN IF ~c.inCall THEN c
          ELSE [c EXCEPT !.timersCreated = @ + 1,
                         !.clears = Append(@, 0),
                         !.timerRef = Some(c.timersCreated + 1),
                         !.intervals = @ \cup {[id |-> c.timersCreated + 1,
                                                limit |-> effectiveLimitSeconds(c)]}]

\* the audio sync effect, deps [configAudioUrl]. The remote video element is
\* rendered while hasDurationParam && inCall, the audio element while
\* configAudioUrl is set as well; outside the call layout there is no
\* element that carries listeners. The effect body runs only in a commit
\* that changed configAudioUrl and adds the listeners if both elements are
\* rendered in that commit.
AudioSyncEffect(prev, s) ==
  IF ~(s.mounted /\ s.hasDurationParam /\ s.inCall)
  THEN [s EXCEPT !.syncAttached = FALSE]
  ELSE IF prev.configAudioUrl # s.configAudioUrl
       THEN [s EXCEPT !.syncAttached = (s.configAudioUrl # Null)]
       ELSE s

\* the steps that only show the typing indicator
TransientSteps ==
  {"minutes_confirmed", "contact_typing", "contact_confirmed", "summary_typing"}

\* the typing effect, deps [chatStep]: entering a transient step shows the
\* typing indicator and arms the step's timeout; the cleanup of the previous
\* run cleared the timeout of the step that was left
TypingEffect(prev, s) ==
  IF prev.chatStep # s.chatStep /\ s.chatStep \in TransientSteps
  THEN [s EXCEPT !.isTyping = TRUE]
  ELSE s

\* a commit of the mounted component: the new state and its effects
Rendered(prev, s) == TypingEffect(prev, AudioSyncEffect(prev, TimerEffect(prev, s)))

\* mutant of TickUpdater: the limit is compared with > instead of >=
TickUpdater_OffByOne(s, limit, prev) ==
  LET t == [s EXCEPT !.ticks = @ + 1,
                     !.lateTicks = IF s.hungUp THEN @ + 1 ELSE @]
  IN IF prev + 1 > limit
     THEN IF s.eagerTick THEN [endCall(t) EXCEPT !.duration = prev + 1]
          ELSE endCall(t)
     ELSE [t EXCEPT !.duration = prev + 1]

\* the updater of the interval callback, applied to duration prev: at the
\* limit it calls endCall() and returns prev + 1. The updater has a side
\* effect, and the order of its setDuration(0) and its return value depends
\* on when it is evaluated. Evaluated by the render, setInCall(false) and
\* setDuration(0) are updates of the render in progress and are applied
\* after the return value: duration ends at 0. Evaluated at dispatch
\* (eagerTick), setDuration(0) is enqueued before the update that carries
\* the return value: duration ends at prev + 1.
TickUpdater(s, limit, prev) ==
  LET t == [s EXCEPT !.ticks = @ + 1,
                     !.lateTicks = IF s.hungUp THEN @ + 1 ELSE @]
  IN IF prev + 1 >= limit
     THEN IF s.eagerTick THEN [endCall(t) EXCEPT !.duration = prev + 1]
          ELSE endCall(t)
     ELSE [t EXCEPT !.duration = prev + 1]

\* the render that applies the enqueued updater. After a click that was
\* rendered first (skippedBase), the updater is applied to the duration it
\* was enqueued on and the click's own updates are applied after it.
ApplyPendingTick(s) ==
  IF s.pendingTick = None THEN s
  ELSE LET limit == Val(s.pendingTick)
           base  == IF s.skippedBase # None THEN Val(s.skippedBase) ELSE s.duration
           u     == TickUpdater(s, limit, base)
           d     == IF s.skippedBase # None THEN 0 ELSE u.duration
       IN [u EXCEPT !.duration = d, !.pendingTick = None, !.skippedBase = None,
                    !.eagerTick = FALSE]

\* ----------------------------------------------------------- startCall

\* startCall up to its await: setConnecting(true); requestMedia:
\* setPermissionError(null); getUserMedia(...)
startCall(s) ==
  [s EXCEPT !.connecting = TRUE, !.permissionError = Null,
            !.mediaPending = TRUE, !.startCalls = @ + 1]

\* getUserMedia resolved: selfStreamRef.current = stream (the self view is
\* not rendered yet, selfVideoRef.current is null); return true; then
\* setDuration(0); setInCall(true); setConnecting(false)
requestMediaResolved(s) ==
  LET r == [s EXCEPT !.mediaPending = FALSE,
                     !.streams = Append(@, NewStream),
                     !.selfStreamRef = Some(Len(s.streams) + 1)]
  IN IF r.mounted
     THEN [r EXCEPT !.duration = 0, !.inCall = TRUE, !.connecting = FALSE,
                    !.ticks = 0]
     ELSE r

\* mutant of requestMediaRejected: startCall returns without setConnecting(false)
requestMediaRejected_StaysConnecting(s) ==
  LET r == [s EXCEPT !.mediaPending = FALSE]
  IN IF r.mounted
     THEN [r EXCEPT !.permissionError = HumanMessage]
     ELSE r

\* getUserMedia rejected: setPermissionError(humanMessage); toast; return
\* false; then setConnecting(false)
requestMediaRejected(s) ==
  LET r == [s EXCEPT !.mediaPending = FALSE]
  IN IF r.mounted
     THEN [r EXCEPT !.permissionError = HumanMessage, !.connecting = FALSE]
     ELSE r

\* ------------------------------------------------------------ the mount

\* the mount effect's reading of the link: a value that parses to a
\* positive number sets the limit and the flag
ParseSecondsParam(s, p) ==
  IF Truthy(p)
  THEN LET parsed == ParseInt(Val(p))
       IN IF parsed # None /\ Val(parsed) > 0
          THEN [s EXCEPT !.durationLimitSeconds = parsed, !.hasDurationParam = TRUE]
          ELSE s
  ELSE [s EXCEPT !.hasDurationParam = FALSE]

\* the auto-start effect: if (params.get("seconds")) startCall()
AutoStart(s, p) == IF Truthy(p) THEN startCall(s) ELSE s

\* the mount: the effects in their order (the link, loadConfig(), the timer
\* effect with inCall false, the auto start)
Mount(p) ==
  LET s1 == ParseSecondsParam(InitialState, p)
      s2 == [s1 EXCEPT !.configPending = TRUE]
  IN AutoStart(s2, p)

\* loadConfig after its await, with the record the query returned (None:
\* no record, or the query failed and data is null)
ConfigRecords ==
  [video_url : {Null, "v"}, audio_url : {Null, "a"},
   duration_seconds : {None, Some(0), Some(3), Some(900)}]

\* mutant of loadConfigResolved: the record's duration replaces a resolved limit
loadConfigResolved_Overrides(s, data) ==
  LET r == [s EXCEPT !.configPending = FALSE]
  IN IF data # None /\ r.mounted
     THEN LET rec == Val(data)
          IN [r EXCEPT !.loadedConfig = data,
                       !.configVideoUrl = rec.video_url,
                       !.configAudioUrl = rec.audio_url,
                       !.durationLimitSeconds =
                           IF rec.duration_seconds # None
                           THEN rec.duration_seconds ELSE @]
     ELSE r

\* mutant of loadConfigResolved: the record's duration is not used
loadConfigResolved_IgnoresDuration(s, data) ==
  LET r == [s EXCEPT !.configPending = FALSE]
  IN IF data # None /\ r.mounted
     THEN LET rec == Val(data)
          IN [r EXCEPT !.loadedConfig = data,
                       !.configVideoUrl = rec.video_url,
                       !.configAudioUrl = rec.audio_url]
     ELSE r

loadConfigResolved(s, data) ==
  LET r == [s EXCEPT !.configPending = FALSE]
  IN IF data # None /\ r.mounted
     THEN LET rec == Val(data)
          IN [r EXCEPT !.loadedConfig = data,
                       !.configVideoUrl = rec.video_url,
                       !.configAudioUrl = rec.audio_url,
                       !.durationLimitSeconds =
                           IF @ # None THEN @ ELSE rec.duration_seconds]
     ELSE r

\* ------------------------------------------------------------- toggles

\* mutant of toggleCam: the camera is switched off whatever its state
toggleCam_AlwaysOff(s) ==
  LET s1 == [s EXCEPT !.mediaState.camOn = FALSE]
  IN IF s1.selfStreamRef # None
     THEN [s1 EXCEPT !.streams[Val(s1.selfStreamRef)].video.enabled = FALSE]
     ELSE s1

\* mutant of toggleMic: the flag flips, the tracks are left as they are
toggleMic_FlagOnly(s) ==
  [s EXCEPT !.mediaState.micOn = ~s.mediaState.micOn]

toggleMic(s) ==
  LET next == ~s.mediaState.micOn
      s1 == [s EXCEPT !.mediaState.micOn = next]
  IN IF s1.selfStreamRef # None
     THEN [s1 EXCEPT !.streams[Val(s1.selfStreamRef)].audio.enabled = next]
     ELSE s1

toggleCam(s) ==
  LET next == ~s.mediaState.camOn
      s1 == [s EXCEPT !.mediaState.camOn = next]
  IN IF s1.selfStreamRef # None
     THEN [s1 EXCEPT !.streams[Val(s1.selfStreamRef)].video.enabled = next]
     ELSE s1

\* ---------------------------------------------------------------- chat

\* PACKAGES; price in centavos
PACKAGES ==
  {[id |-> "p10", minutes |-> 10, price |-> 4990],
   [id |-> "p20", minutes |-> 20, price |-> 7990],
   [id |-> "p30", minutes |-> 30, price |-> 9990]}

Channels == {"whatsapp", "telegram", "email"}

\* texts typed into the contact input: empty, blank, and one that trims to "x"
ContactValues == {<<>>, <<" ">>, <<" ", "x">>}

\* String.prototype.trim on a text of the input
Trim(v) ==
  LET idx == {i \in DOMAIN v : v[i] # " "}
  IN IF idx = {} THEN <<>>
     ELSE SubSeq(v, CHOOSE i \in idx : \A j \in idx : i <= j,
                    CHOOSE i \in idx : \A j \in idx : i >= j)

\* the decimal digits of n, as the template literal `${seconds}` writes them
RECURSIVE ToDecimal(_)
ToDecimal(n) ==
  LET d == CHOOSE c \in Digits : DigitValue(c) = n % 10
  IN IF n < 10 THEN <<d>> ELSE Append(ToDecimal(n \div 10), d)

\* mutant of typingTimeout: the typing steps have no successor
typingTimeout_Stalls(s) ==
  [s EXCEPT !.isTyping = FALSE,
            !.chatStep = CASE s.chatStep = "minutes_confirmed" -> "contact_typing"
                           [] s.chatStep = "contact_confirmed" -> "summary_typing"
                           [] OTHER -> s.chatStep]

\* mutant of typingTimeout: the confirmations lead past the typing steps
typingTimeout_SkipsTyping(s) ==
  [s EXCEPT !.isTyping = FALSE,
            !.chatStep = CASE s.chatStep = "minutes_confirmed" -> "contact"
                           [] s.chatStep = "contact_typing"    -> "contact"
                           [] s.chatStep = "contact_confirmed" -> "summary"
                           [] s.chatStep = "summary_typing"    -> "summary"
                           [] OTHER -> s.chatStep]

\* the timeout of a transient step: setIsTyping(false); setChatStep(next)
typingTimeout(s) ==
  [s EXCEPT !.isTyping = FALSE,
            !.chatStep = CASE s.chatStep = "minutes_confirmed" -> "contact_typing"
                           [] s.chatStep = "contact_typing"    -> "contact"
                           [] s.chatStep = "contact_confirmed" -> "summary_typing"
                           [] s.chatStep = "summary_typing"    -> "summary"
                           [] OTHER -> s.chatStep]

\* a package button: setSelectedPackage(pkg); setChatStep("minutes_confirmed")
selectPackage(s, pkg) ==
  [s EXCEPT !.selectedPackage = Some(pkg), !.chatStep = "minutes_confirmed"]

\* a channel button, and the input's onChange
chooseChannel(s, ch) ==
  [s EXCEPT !.contactChannel = ch,
            !.backPath = IF @ = "back" THEN "edited" ELSE @]

typeContactValue(s, v) ==
  [s EXCEPT !.contactValue = v,
            !.backPath = IF @ = "back" THEN "edited" ELSE @]

\* mutant of ContinueEnabled: the value is not trimmed
ContinueEnabled_NoTrim(s) == s.contactChannel # Null /\ s.contactValue # <<>>

\* the Continue button is not disabled: !(!contactChannel || !contactValue.trim())
ContinueEnabled(s) == s.contactChannel # Null /\ Trim(s.contactValue) # <<>>

continue(s) == [s EXCEPT !.chatStep = "contact_confirmed"]

\* mutant of back: Back at contact keeps the selection
back_KeepsSelection(s) ==
  IF s.chatStep \in {"summary", "summary_typing"}
  THEN [s EXCEPT !.chatStep = "contact",
                 !.backPath = IF @ = "fresh" THEN "back" ELSE @]
  ELSE [s EXCEPT !.chatStep = "minutes", !.backPath = "fresh"]

\* mutant of back: the contact is emptied on the way back from the summary
back_ClearsContact(s) ==
  IF s.chatStep \in {"summary", "summary_typing"}
  THEN [s EXCEPT !.chatStep = "contact", !.contactChannel = Null,
                 !.contactValue = <<>>,
                 !.backPath = IF @ = "fresh" THEN "back" ELSE @]
  ELSE [s EXCEPT !.chatStep = "minutes", !.selectedPackage = None,
                 !.contactChannel = Null, !.contactValue = <<>>,
                 !.backPath = "fresh"]

\* mutant of back: the package is dropped on the way back from the summary
back_DropsPackage(s) ==
  IF s.chatStep \in {"summary", "summary_typing"}
  THEN [s EXCEPT !.chatStep = "contact", !.selectedPackage = None,
                 !.backPath = IF @ = "fresh" THEN "back" ELSE @]
  ELSE [s EXCEPT !.chatStep = "minutes", !.selectedPackage = None,
                 !.contactChannel = Null, !.contactValue = <<>>,
                 !.backPath = "fresh"]

\* the Back button
back(s) ==
  IF s.chatStep \in {"summary", "summary_typing"}
  THEN [s EXCEPT !.chatStep = "contact",
                 !.backPath = IF @ = "fresh" THEN "back" ELSE @]
  ELSE [s EXCEPT !.chatStep = "minutes", !.selectedPackage = None,
                 !.contactChannel = Null, !.contactValue = <<>>,
                 !.backPath = "fresh"]

\* mutant of HandoffUrl: the duration travels under another key
HandoffUrl_OtherKey(seconds) ==
  [path |-> "/", query |-> <<[key |-> "duration", value |-> ToDecimal(seconds)]>>]

\* `${window.location.origin}/?seconds=${seconds}`: the path and the query
\* of the link, the query as its sequence of key=value pairs
HandoffUrl(seconds) ==
  [path |-> "/", query |-> <<[key |-> "seconds", value |-> ToDecimal(seconds)]>>]

\* URLSearchParams.get: the value of the first pair with the key, or null
SearchParamsGet(query, key) ==
  LET idx == {i \in DOMAIN query : query[i].key = key}
  IN IF idx = {} THEN None
     ELSE Some(query[CHOOSE i \in idx : \A j \in idx : i <= j].value)

\* mutant of generate: the link carries the minutes
generate_LinksMinutes(s) ==
  [s EXCEPT !.openedLink = Some(HandoffUrl(Val(s.selectedPackage).minutes)),
            !.chatStep = "finished"]

\* the Generate button: seconds = selectedPackage.minutes * 60;
\* window.open(`${origin}/?seconds=${seconds}`, "_blank"); setChatStep("finished")
generate(s) ==
  [s EXCEPT !.openedLink = Some(HandoffUrl(Val(s.selectedPackage).minutes * 60)),
            !.chatStep = "finished"]

\* mutant of createAnother: the contact is kept for the next link
createAnother_KeepsContact(s) ==
  [s EXCEPT !.chatStep = "minutes", !.selectedPackage = None,
            !.backPath = "fresh"]

\* the button of the finished step
createAnother(s) ==
  [s EXCEPT !.chatStep = "minutes", !.selectedPackage = None,
            !.contactChannel = Null, !.contactValue = <<>>,
            !.backPath = "fresh"]

\* ------------------------------------------------------------- unmount

\* the cleanup of the mount-only effect: stopMediaTracks(); clearInterval
\* (the ref is not reset here)
UnmountCleanup(s) ==
  LET s1 == stopMediaTracks(s)
  IN IF s1.timerRef # None
     THEN [s1 EXCEPT !.intervals = {t \in @ : t.id # Val(s1.timerRef)},
                     !.clears[Val(s1.timerRef)] = @ + 1]
     ELSE s1

\* the unmount: the timer effect's cleanup, then the mount-only effect's
unmount(s) ==
  LET s1 == IF s.inCall THEN ClearTimer(s) ELSE s
      s2 == UnmountCleanup(s1)
  IN [s2 EXCEPT !.mounted = FALSE, !.pendingTick = None, !.skippedBase = None,
                !.eagerTick = FALSE, !.syncAttached = FALSE]

\* ------------------------------------------------------------ rendering

\* mutant of ChatPresented: the flag is not looked at
ChatPresented_IgnoresFlag == mounted /\ ~inCall

\* {!hasDurationParam && !inCall && ( chat )}
ChatPresented == mounted /\ ~hasDurationParam /\ ~inCall
\* {hasDurationParam && ( {inCall && ( call layout, controls )} )}
CallControlsPresented == mounted /\ hasDurationParam /\ inCall

\* ------------------------------------------------------------- actions

StartsAs(s) ==
  /\ inCall = s.inCall /\ connecting = s.connecting /\ duration = s.duration
  /\ mediaState = s.mediaState /\ permissionError = s.permissionError
  /\ configVideoUrl = s.configVideoUrl /\ configAudioUrl = s.configAudioUrl
  /\ durationLimitSeconds = s.durationLimitSeconds
  /\ hasDurationParam = s.hasDurationParam
  /\ selfStreamRef = s.selfStreamRef /\ timerRef = s.timerRef
  /\ intervals = s.intervals /\ timersCreated = s.timersCreated
  /\ streams = s.streams /\ mounted = s.mounted
  /\ mediaPending = s.mediaPending /\ configPending = s.configPending
  /\ pendingTick = s.pendingTick /\ skippedBase = s.skippedBase
  /\ startCalls = s.startCalls /\ endCalls = s.endCalls /\ ticks = s.ticks
  /\ hungUp = s.hungUp /\ lateTicks = s.lateTicks
  /\ loadedConfig = s.loadedConfig
  /\ clears = s.clears
  /\ eagerTick = s.eagerTick
  /\ syncAttached = s.syncAttached
  /\ chatStep = s.chatStep
  /\ selectedPackage = s.selectedPackage
  /\ contactChannel = s.contactChannel
  /\ contactValue = s.contactValue
  /\ isTyping = s.isTyping
  /\ openedLink = s.openedLink
  /\ backPath = s.backPath

\* the page has been loaded with some entry link and its mount effects have run
Init ==
  /\ secondsParam \in Params
  /\ StartsAs(Mount(secondsParam))

\* getUserMedia resolves
MediaGranted ==
  /\ mediaPending
  /\ Commit(Rendered(Cur, requestMediaResolved(Cur)))

\* getUserMedia rejects
MediaDenied ==
  /\ mediaPending
  /\ Commit(Rendered(Cur, requestMediaRejected(Cur)))

\* the call_config query completes; a queued interval update is rendered in
\* the same batch
ConfigLoaded ==
  /\ configPending
  /\ \E data \in {None} \cup {Some(r) : r \in ConfigRecords} :
       Commit(Rendered(Cur, loadConfigResolved(ApplyPendingTick(Cur), data)))

\* the interval callback runs: setDuration(updater) is enqueued; whether
\* the updater is evaluated here or by the render is the framework's choice
TickFire ==
  /\ mounted /\ pendingTick = None
  /\ duration < MaxElapsed
  /\ \E t \in intervals, eager \in BOOLEAN :
       Commit([Cur EXCEPT !.pendingTick = Some(t.limit), !.eagerTick = eager])

\* the render of the enqueued update
TickRender ==
  /\ mounted /\ pendingTick # None
  /\ Commit(Rendered(Cur, ApplyPendingTick(Cur)))

\* the hangup button; an enqueued interval update stays enqueued behind it
HangUp ==
  /\ CallControlsPresented
  /\ LET e == [endCall(Cur) EXCEPT !.hungUp = TRUE]
     IN Commit(Rendered(Cur,
          IF pendingTick # None /\ skippedBase = None
          THEN [e EXCEPT !.skippedBase = Some(duration)] ELSE e))

ToggleMic ==
  /\ CallControlsPresented
  /\ Commit(Rendered(Cur, toggleMic(Cur)))

ToggleCam ==
  /\ CallControlsPresented
  /\ Commit(Rendered(Cur, toggleCam(Cur)))

\* the page is left
Unmount ==
  /\ mounted
  /\ Commit(unmount(Cur))

Next ==
  \/ MediaGranted \/ MediaDenied \/ ConfigLoaded
  \/ TickFire \/ TickRender
  \/ HangUp \/ ToggleMic \/ ToggleCam
  \/ Unmount

Spec == Init /\ [][Next]_vars

\* ------------------------------------------------- the page with its chat

\* the entry links the chat is explored with: none, a rejected value (the
\* call starts while the chat is shown), a valid value (no chat)
ChatParams == {None, Some(<<"a">>), Some(<<"2">>)}

InitChat ==
  /\ secondsParam \in ChatParams
  /\ StartsAs(Mount(secondsParam))

PickPackage ==
  /\ ChatPresented /\ chatStep \in {"intro", "minutes"}
  /\ \E pkg \in PACKAGES : Commit(Rendered(Cur, selectPackage(Cur, pkg)))

\* the timeout of the current transient step expires
TypingExpire ==
  /\ mounted /\ chatStep \in TransientSteps
  /\ Commit(Rendered(Cur, typingTimeout(Cur)))

ChooseChannel ==
  /\ ChatPresented /\ chatStep = "contact" /\ selectedPackage # None
  /\ \E ch \in Channels : Commit(Rendered(Cur, chooseChannel(Cur, ch)))

TypeContactValue ==
  /\ ChatPresented /\ chatStep = "contact" /\ selectedPackage # None
  /\ contactChannel # Null
  /\ \E v \in ContactValues : Commit(Rendered(Cur, typeContactValue(Cur, v)))

\* the Continue button is rendered and not disabled
ContinueOffered == ChatPresented /\ chatStep = "contact" /\ ContinueEnabled(Cur)

Continue ==
  /\ ContinueOffered
  /\ Commit(Rendered(Cur, continue(Cur)))

Back ==
  /\ ChatPresented /\ chatStep \in {"contact", "summary", "summary_typing"}
  /\ Commit(Rendered(Cur, back(Cur)))

\* the Generate button is rendered
GenerateOffered == ChatPresented /\ chatStep = "summary" /\ selectedPackage # None

Generate ==
  /\ GenerateOffered
  /\ Commit(Rendered(Cur, generate(Cur)))

CreateAnother ==
  /\ ChatPresented /\ chatStep = "finished"
  /\ Commit(Rendered(Cur, createAnother(Cur)))

NextChat ==
  \/ Next
  \/ PickPackage \/ TypingExpire
  \/ ChooseChannel \/ TypeContactValue \/ Continue \/ Back
  \/ Generate \/ CreateAnother

SpecChat == InitChat /\ [][NextChat]_vars

\* the page opened without a seconds parameter: startCall is never invoked,
\* what can happen is the chat and the unmount. The config query is left
\* pending here: its completion writes configVideoUrl, configAudioUrl and
\* durationLimitSeconds, which no chat handler reads or writes.
InitGuided ==
  /\ secondsParam = None
  /\ StartsAs(Mount(secondsParam))

NextGuided ==
  \/ Unmount
  \/ PickPackage \/ TypingExpire
  \/ ChooseChannel \/ TypeContactValue \/ Continue \/ Back
  \/ Generate \/ CreateAnother

\* while the page is mounted an armed timeout does expire
SpecChatLive == InitGuided /\ [][NextGuided]_vars /\ WF_vars(TypingExpire)

\* ------------------------------------------------------------- claims

\* a seconds= value that is a positive integer string, and its number
StrictPositiveInteger(p) ==
  /\ Truthy(p)
  /\ \A i \in DOMAIN Val(p) : Val(p)[i] \in Digits
  /\ DecimalValue(0, Val(p)) > 0

\* a seconds= value the mount effect accepts as a duration
ValidValue(p) ==
  /\ Truthy(p)
  /\ ParseInt(Val(p)) # None
  /\ Val(ParseInt(Val(p))) > 0

\* a seconds= value that is present and is no duration: it does not parse,
\* or parses to zero or less
RejectedValue(p) == p # None /\ ~ValidValue(p)

AllTracks ==
  {streams[i].audio : i \in DOMAIN streams} \cup {streams[i].video : i \in DOMAIN streams}

\* the state, refs and browser resources of a state record, without the
\* history fields
ProgramPart(s) ==
  <<s.inCall, s.connecting, s.duration, s.mediaState, s.permissionError,
    s.configVideoUrl, s.configAudioUrl, s.durationLimitSeconds,
    s.hasDurationParam, s.selfStreamRef, s.timerRef, s.intervals, s.streams,
    s.mounted, s.mediaPending, s.configPending>>

\* C1: a session that runs against one positive limit L, with no hangup and
\* no unmount, is still in call after fewer than L applied ticks, leaves the
\* call on the tick that is the L-th, and endCall has then run exactly once.
C1_EndsOnExactlyTheLimitTick ==
  /\ [](inCall /\ mounted /\ timersCreated = 1 /\ effectiveLimitSeconds(Cur) >= 1
          => ticks < effectiveLimitSeconds(Cur))
  /\ [][(inCall /\ ~inCall' /\ mounted' /\ ~hungUp' /\ timersCreated = 1
           /\ effectiveLimitSeconds(Cur) >= 1)
          => (ticks' = effectiveLimitSeconds(Cur) /\ endCalls' = 1)]_vars

\* a session with limit 2 has been ended by its second tick
C1_Witness ==
  /\ mounted /\ ~inCall /\ ~hungUp /\ endCalls = 1
  /\ ticks = 2 /\ durationLimitSeconds = Some(2) /\ timersCreated = 1

\* C2: with a positive integer N in the link, the flag is set and the limit
\* is N in every state, whatever the config query returns and whenever it
\* completes; a resolved limit is never replaced.
C2_LinkValueWins ==
  /\ [](StrictPositiveInteger(secondsParam)
          => /\ hasDurationParam
             /\ durationLimitSeconds = Some(DecimalValue(0, Val(secondsParam))))
  /\ [][durationLimitSeconds # None
          => durationLimitSeconds' = durationLimitSeconds]_vars

\* the config record with duration 3 was applied during a call whose link
\* said 2, and the limit is 2
C2_Witness ==
  /\ StrictPositiveInteger(secondsParam)
  /\ inCall /\ loadedConfig # None
  /\ Val(loadedConfig).duration_seconds = Some(3)
  /\ durationLimitSeconds = Some(2)

\* C3: a link whose seconds value is malformed or not positive behaves like
\* a link without the parameter: the flag is false, the link gives no limit,
\* and the chat flow is presented for as long as the page is mounted.
C3_MalformedBehavesAsAbsent ==
  RejectedValue(secondsParam)
    => /\ ~hasDurationParam
       /\ (loadedConfig = None => durationLimitSeconds = None)
       /\ (mounted => ChatPresented)

\* C4: startCall has been invoked by the page itself exactly once when the
\* link carries a valid duration, and never otherwise.
C4_AutoStartIffValidDuration ==
  startCalls = IF ValidValue(secondsParam) THEN 1 ELSE 0

\* C5: while the session stays in call, the limit its timer compares
\* against does not change.
C5_LimitFixedDuringCall ==
  [][inCall /\ inCall'
       => effectiveLimitSeconds(Cur)' = effectiveLimitSeconds(Cur)]_vars

\* C6: once the page is unmounted no captured track is live, the handle is
\* cleared and no interval is left, on every exit path.
C6_TeardownReleasesEverything ==
  ~mounted
    => /\ selfStreamRef = None
       /\ intervals = {}
       /\ \A tr \in AllTracks : ~tr.live

\* C7: after the hangup the session stays ended whatever tick update is
\* still in flight: not in call, elapsed 0, no handle, no timer, and every
\* captured track stopped once.
C7_ManualEndWins ==
  hungUp
    => /\ ~inCall /\ duration = 0
       /\ selfStreamRef = None /\ timerRef = None /\ intervals = {}
       /\ \A tr \in AllTracks : ~tr.live /\ tr.stops = 1

\* an interval update that was enqueued before the hangup has been applied
\* after it
C7_Witness == hungUp /\ mounted /\ lateTicks >= 1 /\ pendingTick = None

C9_FailedCaptureIsRetryable ==
  (mounted /\ permissionError # Null /\ ~mediaPending)
    => /\ permissionError = HumanMessage
       /\ ~connecting /\ ~inCall /\ duration = 0
       /\ timerRef = None /\ intervals = {} /\ selfStreamRef = None
       /\ LET s1 == startCall(Cur)
              s2 == Rendered(s1, requestMediaResolved(s1))
          IN /\ s1.connecting /\ s1.permissionError = Null
             /\ s2.inCall /\ ~s2.connecting /\ s2.duration = 0
             /\ s2.permissionError = Null
             /\ s2.selfStreamRef # None /\ s2.intervals # {}

\* the capture has failed on a mounted page
C9_Witness ==
  /\ mounted /\ permissionError = HumanMessage /\ ~mediaPending
  /\ startCalls = 1 /\ ~configPending

\* C10: endCall applied twice to any state the page reaches gives what one
\* endCall gives: not in call, elapsed 0, no timer, no handle, the tracks
\* of the former handle stopped once.
C10_EndTwiceIsEndOnce ==
  LET e1 == endCall(Cur)
      e2 == endCall(e1)
  IN /\ ProgramPart(e2) = ProgramPart(e1)
     /\ ~e2.inCall /\ e2.duration = 0
     /\ e2.selfStreamRef = None /\ e2.timerRef = None /\ e2.intervals = {}
     /\ selfStreamRef # None
          => /\ ~e2.streams[Val(selfStreamRef)].audio.live
             /\ ~e2.streams[Val(selfStreamRef)].video.live
             /\ e2.streams[Val(selfStreamRef)].audio.stops = 1

\* endCall has run twice on one page: by the hangup, and again by the tick
\* update that was in flight and reaches the limit
C10_Witness ==
  /\ endCalls = 2 /\ hungUp /\ lateTicks = 1
  /\ ~inCall /\ duration = 0 /\ selfStreamRef = None

\* C11: whatever exits follow one another (hangup, limit reached, unmount),
\* each captured track has been stopped at most once and each interval
\* cleared at most once.
C11_ReleasedAtMostOnce ==
  /\ \A tr \in AllTracks : tr.stops <= 1
  /\ \A i \in DOMAIN clears : clears[i] <= 1

\* the hangup, then the in-flight tick update that reaches the limit, then
\* the unmount: three exits, one stop and one clearInterval
C11_Witness ==
  /\ ~mounted /\ hungUp /\ endCalls = 2
  /\ streams # <<>> /\ streams[1].audio.stops = 1 /\ streams[1].video.stops = 1
  /\ clears = <<1>>

\* C12: the step in which the tick that reaches the limit ends the call
\* leaves what a hangup would have left: in-call false, elapsed 0, no
\* interval and no timer handle, every captured track stopped, no media
\* handle, no permission-error message.
C12_LimitEndEqualsHangUp ==
  [][(inCall /\ ~inCall' /\ mounted' /\ ~hungUp')
       => /\ duration' = 0
          /\ duration' = endCall(Cur).duration
          /\ timerRef' = None /\ intervals' = {}
          /\ selfStreamRef' = None
          /\ \A tr \in AllTracks' : ~tr.live
          /\ permissionError' = Null]_vars

\* C13: while in-call stays true, elapsed changes only by a tick and then by
\* exactly +1; a step that changes elapsed is a tick, a session start or a
\* session end; the start and the end leave elapsed at 0.
C13_ElapsedCountsTicks ==
  [][/\ (inCall /\ inCall')
          => \/ duration' = duration /\ ticks' = ticks
             \/ duration' = duration + 1 /\ ticks' = ticks + 1
     /\ (duration' # duration)
          => \/ inCall /\ inCall' /\ ticks' = ticks + 1
             \/ ~inCall /\ inCall'
             \/ inCall /\ ~inCall'
     /\ (~inCall /\ inCall') => duration' = 0
     /\ (inCall /\ ~inCall') => duration' = 0]_vars

\* the config record whose duration is 900
HasDuration900(data) == data # None /\ Val(data).duration_seconds = Some(900)

\* C14: without a seconds parameter (or with a rejected one), once the
\* config load has completed with a record of duration 900 the limit is 900
\* and a running timer counts against 900; a call that runs while the load
\* is pending counts against 1800, and a call started at that point would
\* count against 1800 and then against 900 from the load's completion on.
C14_ConfigLimitAppliesFromCompletion ==
  /\ (~ValidValue(secondsParam) /\ HasDuration900(loadedConfig))
       => /\ durationLimitSeconds = Some(900)
          /\ effectiveLimitSeconds(Cur) = 900
          /\ \A t \in intervals : t.limit = 900
  /\ (~ValidValue(secondsParam) /\ configPending /\ inCall /\ mounted)
       => /\ intervals # {}
          /\ \A t \in intervals : t.limit = 1800
  /\ (secondsParam = None /\ configPending /\ mounted /\ ~mediaPending)
       => LET s1 == Rendered(Cur, requestMediaResolved(startCall(Cur)))
              s2 == UNION {{Rendered(s1, loadConfigResolved(s1, Some(r)))} :
                             r \in {c \in ConfigRecords : HasDuration900(Some(c))}}
          IN /\ s1.inCall /\ s1.intervals # {}
             /\ \A t \in s1.intervals : t.limit = 1800
             /\ \A s \in s2 : /\ s.durationLimitSeconds = Some(900)
                              /\ s.intervals # {}
                              /\ \A t \in s.intervals : t.limit = 900

\* a call that started while the load was pending, against 1800, now counts
\* against the 900 of the record
C14_Witness ==
  /\ ~ValidValue(secondsParam) /\ HasDuration900(loadedConfig)
  /\ inCall /\ timersCreated = 2 /\ ticks >= 1
  /\ \E t \in intervals : t.limit = 900

\* C15: with no valid seconds parameter and no config duration (no record
\* applied, or a record without a duration), the effective limit is 1800 and
\* every running interval counts against 1800.
C15_DefaultLimit ==
  (/\ ~ValidValue(secondsParam)
   /\ \/ loadedConfig = None
      \/ Val(loadedConfig).duration_seconds = None)
    => /\ effectiveLimitSeconds(Cur) = 1800
       /\ \A t \in intervals : t.limit = 1800

\* a call runs against the default after a record without a duration
C15_Witness ==
  /\ ~ValidValue(secondsParam) /\ inCall /\ ticks >= 1
  /\ loadedConfig # None /\ Val(loadedConfig).duration_seconds = None
  /\ \E t \in intervals : t.limit = 1800

\* C16: in a state with a media handle, toggleMic changes the mic flag and
\* the audio track's enabled state, and a second toggleMic (each call made
\* by the render that follows the previous one) gives back the state before
\* the first; the same for toggleCam with the camera flag and the video track.
C16_ToggleTwiceRestores ==
  selfStreamRef # None
    => LET h  == Val(selfStreamRef)
           m1 == toggleMic(Cur)
           m2 == toggleMic(m1)
           c1 == toggleCam(Cur)
           c2 == toggleCam(c1)
       IN /\ m1.mediaState.micOn # mediaState.micOn
          /\ m1.streams[h].audio.enabled # streams[h].audio.enabled
          /\ m2.mediaState.micOn = mediaState.micOn
          /\ m2.streams[h].audio.enabled = streams[h].audio.enabled
          /\ m2 = Cur
          /\ c1.mediaState.camOn # mediaState.camOn
          /\ c1.streams[h].video.enabled # streams[h].video.enabled
          /\ c2.mediaState.camOn = mediaState.camOn
          /\ c2.streams[h].video.enabled = streams[h].video.enabled
          /\ c2 = Cur

\* in a call, both the microphone and the camera are switched off
C16_Witness ==
  /\ inCall /\ mounted /\ selfStreamRef # None
  /\ ~mediaState.micOn /\ ~mediaState.camOn
  /\ ~streams[Val(selfStreamRef)].audio.enabled
  /\ ~streams[Val(selfStreamRef)].video.enabled

\* C17: without a media handle, toggleMic and toggleCam change nothing.
C17_ToggleWithoutHandleIsNoOp ==
  selfStreamRef = None
    => /\ toggleMic(Cur) = Cur
       /\ toggleCam(Cur) = Cur

\* C18: whenever the call layout is shown and an audio source is
\* configured, the synchronizer's listeners are attached to the remote
\* video, whether the config arrived before or after the call became active.
C18_SynchronizerAttached ==
  (CallControlsPresented /\ configAudioUrl # Null) => syncAttached

\* C19: the step is summary only with a package of the catalog selected, so
\* the Generate button can only be used with a package; every link that was
\* opened carries minutes * 60 of a catalog package.
C19_GenerateNeedsPackage ==
  /\ selectedPackage # None => Val(selectedPackage) \in PACKAGES
  /\ chatStep = "summary" => selectedPackage # None
  /\ GenerateOffered => Val(selectedPackage) \in PACKAGES
  /\ openedLink # None
       => \E pkg \in PACKAGES : openedLink = Some(HandoffUrl(pkg.minutes * 60))

\* the link of the 20 minute package has been opened
C19_Witness ==
  /\ chatStep = "finished" /\ selectedPackage # None
  /\ Val(selectedPackage).id = "p20"
  /\ SearchParamsGet(Val(openedLink).query, "seconds") = Some(<<"1", "2", "0", "0">>)

\* C20: in the steps contact_confirmed, summary_typing, summary and finished
\* a package and a channel are selected and the contact value is not blank;
\* Continue can be used only with a channel and a non-blank value. This is
\* an invariant of all behaviours, those that go back from the summary and
\* edit the contact included.
C20_ContactCompleteBeforeSummary ==
  /\ chatStep \in {"contact_confirmed", "summary_typing", "summary", "finished"}
       => /\ selectedPackage # None
          /\ contactChannel # Null
          /\ Trim(contactValue) # <<>>
  /\ ContinueOffered
       => /\ contactChannel \in Channels
          /\ \E i \in DOMAIN contactValue : contactValue[i] # " "

\* back from the summary, the contact was edited and the summary reached again
C20_Witness ==
  /\ chatStep = "summary" /\ backPath = "edited"
  /\ selectedPackage # None /\ contactChannel # Null
  /\ Trim(contactValue) = <<"x">>

\* C21: a Generate step is taken at summary with a package P selected; it
\* opens exactly one link, whose path is / and whose query is the single
\* pair seconds = P.minutes * 60 in decimal (600 for the 10 minute package),
\* moves the step to finished and leaves package and contact as they were.
C21_GenerateOpensHandoffLink ==
  [][(chatStep # "finished" /\ chatStep' = "finished")
       => /\ chatStep = "summary" /\ selectedPackage # None
          /\ Cardinality(openedLink') = 1
          /\ LET P == Val(selectedPackage)
                 url == Val(openedLink')
             IN /\ url.path = "/"
                /\ Len(url.query) = 1
                /\ url.query[1].key = "seconds"
                /\ ParseInt(url.query[1].value) = Some(P.minutes * 60)
                /\ url.query[1].value = ToDecimal(P.minutes * 60)
                /\ P.id = "p10" => url.query[1].value = <<"6", "0", "0">>
          /\ UNCHANGED <<selectedPackage, contactChannel, contactValue>>]_vars

\* the link of the 10 minute package has been opened
C21_Witness ==
  /\ chatStep = "finished" /\ selectedPackage # None
  /\ Val(selectedPackage).minutes = 10
  /\ openedLink = Some(HandoffUrl(600))

\* the page as it mounts on a link: its seconds value is read with
\* URLSearchParams.get, parsed, and the auto-start effect runs
MountedOn(url) == Mount(SearchParamsGet(url.query, "seconds"))

\* C22: for every package P of the catalog, the page mounted on the link
\* generated for P has the explicit-duration flag set, the limit
\* P.minutes * 60 and one startCall under way; the same for the link a
\* Generate step has just opened.
C22_LinkRoundTrip ==
  /\ \A P \in PACKAGES :
       LET m == MountedOn(HandoffUrl(P.minutes * 60))
       IN /\ m.hasDurationParam
          /\ m.durationLimitSeconds = Some(P.minutes * 60)
          /\ m.startCalls = 1 /\ m.connecting /\ m.mediaPending
          /\ effectiveLimitSeconds(m) = P.minutes * 60
  /\ chatStep = "finished"
       => LET m == MountedOn(Val(openedLink))
          IN /\ m.hasDurationParam
             /\ m.durationLimitSeconds = Some(Val(selectedPackage).minutes * 60)
             /\ m.startCalls = 1 /\ m.connecting /\ m.mediaPending

\* the link of the 30 minute package has been opened; mounted on it the
\* page has the limit 1800
C22_Witness ==
  /\ chatStep = "finished" /\ selectedPackage # None
  /\ Val(selectedPackage).minutes = 30
  /\ openedLink # None
  /\ MountedOn(Val(openedLink)).durationLimitSeconds = Some(1800)

\* C23: the chat is presented only with the explicit-duration flag false
\* and no call in progress; with the flag true the chat is not presented
\* and the chat state is the initial one: step intro, nothing selected,
\* nothing typed, no link opened.
C23_ChatOnlyInGuidedMode ==
  /\ ChatPresented => (~hasDurationParam /\ ~inCall)
  /\ hasDurationParam
       => /\ ~ChatPresented
          /\ chatStep = "intro" /\ ~isTyping
          /\ selectedPackage = None /\ contactChannel = Null
          /\ contactValue = <<>> /\ openedLink = None

\* direct call mode before the capture resolves and after the call ended:
\* no call in progress, and no chat
C23_Witness ==
  /\ mounted /\ hasDurationParam /\ ~inCall /\ endCalls = 1
  /\ ~ChatPresented /\ chatStep = "intro"

\* the position of a step in the order of the flow
StepRank(step) ==
  CASE step = "intro"             -> 1
    [] step = "minutes"           -> 2
    [] step = "minutes_confirmed" -> 3
    [] step = "contact_typing"    -> 4
    [] step = "contact"           -> 5
    [] step = "contact_confirmed" -> 6
    [] step = "summary_typing"    -> 7
    [] step = "summary"           -> 8
    [] step = "finished"          -> 9

\* C24: a step that changes chatStep moves it to the next step of the
\* order, or from intro to minutes_confirmed by a package selection, or
\* back; the back moves are contact to minutes, summary and summary_typing
\* to contact, finished to minutes.
C24_StepOrder ==
  [][chatStep' # chatStep
       => \/ StepRank(chatStep') = StepRank(chatStep) + 1
          \/ /\ chatStep = "intro" /\ chatStep' = "minutes_confirmed"
             /\ selectedPackage = None /\ selectedPackage' # None
          \/ /\ StepRank(chatStep') < StepRank(chatStep)
             /\ <<chatStep, chatStep'>> \in
                  {<<"contact", "minutes">>, <<"summary", "contact">>,
                   <<"summary_typing", "contact">>, <<"finished", "minutes">>}]_vars

\* a flow went through every step to finished and back to minutes, and a
\* second one went back from the summary to contact
C24_Witness ==
  /\ chatStep = "contact" /\ backPath = "back" /\ openedLink # None

\* C25: with the timeouts firing, minutes_confirmed leads to contact, and
\* contact_confirmed leads to summary unless the user goes back to contact
\* from summary_typing (or the page is left, which cancels the timeout);
\* a step out of a transient step that is not a Back is made by the expiry:
\* its handler clears the typing flag and the step advances by exactly one.
C25_TransientStepsAdvance ==
  /\ (chatStep = "minutes_confirmed") ~> (chatStep = "contact" \/ ~mounted)
  /\ (chatStep = "contact_confirmed")
       ~> (chatStep = "summary" \/ chatStep = "contact" \/ ~mounted)
  /\ [][(chatStep \in TransientSteps /\ chatStep' # chatStep
           /\ chatStep' # "contact")
          => /\ StepRank(chatStep') = StepRank(chatStep) + 1
             /\ chatStep' = typingTimeout(Cur).chatStep
             /\ ~typingTimeout(Cur).isTyping
             /\ isTyping' = (chatStep' \in TransientSteps)
             /\ UNCHANGED <<selectedPackage, contactChannel, contactValue>>]_vars

\* the summary was reached by the expiries alone: no Back, no earlier link
C25_Witness ==
  /\ chatStep = "summary" /\ backPath = "fresh" /\ openedLink = None
  /\ ~isTyping /\ mounted

\* C26: the step that leaves summary without generating is the Back
\* button's: it moves the step to contact and leaves the package, the
\* channel and the contact value (and the link history) as they were.
C26_BackFromSummaryKeepsSelection ==
  [][(chatStep = "summary" /\ chatStep' \notin {"summary", "finished"})
       => /\ chatStep' = "contact"
          /\ chatStep' = back(Cur).chatStep
          /\ UNCHANGED <<selectedPackage, contactChannel, contactValue,
                         isTyping, openedLink>>]_vars

\* back at contact from the summary, with the selection of the summary
C26_Witness ==
  /\ chatStep = "contact" /\ backPath = "back" /\ ~isTyping
  /\ selectedPackage # None /\ contactChannel = "email"
  /\ Trim(contactValue) = <<"x">>

\* C27: the step that leaves finished is the create-another button's: the
\* step becomes minutes, the package and the channel null, the contact
\* value empty. From there a package can be selected and the flow can
\* reach a second Generate.
C27_CreateAnotherResets ==
  [][(chatStep = "finished" /\ chatStep' # "finished")
       => /\ chatStep' = "minutes"
          /\ selectedPackage' = None
          /\ contactChannel' = Null
          /\ contactValue' = <<>>
          /\ \A pkg \in PACKAGES :
               selectPackage(Cur', pkg).chatStep = "minutes_confirmed"]_vars

\* after the link of the 10 minute package, the 20 minute package has been
\* selected and the Generate button is offered again
C27_Witness ==
  /\ GenerateOffered
  /\ openedLink = Some(HandoffUrl(600))
  /\ Val(selectedPackage).minutes = 20

\* C28: the typing flag is true only in the transient steps.
C28_TypingOnlyInTransientSteps ==
  isTyping => chatStep \in TransientSteps

\* the page shows something to act on: the chat or the call layout
SomethingPresented == ChatPresented \/ CallControlsPresented

\* C29: whenever the session is in call the explicit-duration flag is true,
\* so a running call (live capture, running interval) on the mounted page
\* has its controls presented.
C29_RunningCallHasControls ==
  /\ inCall => hasDurationParam
  /\ (mounted /\ intervals # {} /\ \E tr \in AllTracks : tr.live)
       => SomethingPresented

\* the streams of a state record that have a live track and are not the
\* one selfStreamRef refers to
UnreachableLive(s) ==
  {i \in DOMAIN s.streams :
     /\ s.streams[i].audio.live \/ s.streams[i].video.live
     /\ s.selfStreamRef # Some(i)}

\* C30: every live track belongs to the stream of the handle; on the
\* mounted page the handle is set exactly while in call; after the teardown
\* no track is live; and startCall invoked again, while connecting (both
\* captures resolve) or while in call, or endCall while connecting, leaves
\* no live track outside the handle.
C30_LiveTracksStayReachable ==
  /\ UnreachableLive(Cur) = {}
  /\ mounted => (selfStreamRef # None <=> inCall)
  /\ ~mounted => \A tr \in AllTracks : ~tr.live
  /\ (mounted /\ mediaPending)
       => /\ UnreachableLive(requestMediaResolved(endCall(Cur))) = {}
          /\ UnreachableLive(requestMediaResolved(
                               requestMediaResolved(startCall(Cur)))) = {}
  /\ (mounted /\ inCall)
       => UnreachableLive(requestMediaResolved(startCall(Cur))) = {}

\* C31: there is at most one interval; on the mounted page there is one
\* exactly while in call, it is the one timerRef refers to and it counts
\* against the current effective limit; every interval created before it
\* has been cleared, so a changed limit replaces the interval and no second
\* one increments the elapsed seconds.
C31_AtMostOneInterval ==
  /\ Cardinality(intervals) <= 1
  /\ mounted => (intervals # {} <=> inCall)
  /\ \A t \in intervals :
       /\ timerRef = Some(t.id)
       /\ t.id = timersCreated
       /\ t.limit = effectiveLimitSeconds(Cur)
  /\ Len(clears) = timersCreated
  /\ \A i \in DOMAIN clears :
       clears[i] = 0 <=> (\E t \in intervals : t.id = i)

\* the limit changed during a call: the first interval was cleared and the
\* second one runs alone
C31_Witness ==
  /\ mounted /\ inCall /\ timersCreated = 2 /\ clears = <<1, 0>>
  /\ Cardinality(intervals) = 1 /\ ticks >= 1

\* C32: the limit a running interval compares against, and the limit of an
\* enqueued tick update, is at least 1, so no session is ended by a limit
\* of zero or less.
C32_LimitIsPositive ==
  /\ \A t \in intervals : t.limit >= 1
  /\ pendingTick # None => Val(pendingTick) >= 1
  /\ (mounted /\ inCall) => effectiveLimitSeconds(Cur) >= 1

\* C33: at intro and at minutes no package and no channel is selected and
\* the contact value is empty, whatever pass through the flow came before.
C33_NoSelectionBeforePackageStep ==
  chatStep \in {"intro", "minutes"}
    => /\ selectedPackage = None
       /\ contactChannel = Null
       /\ contactValue = <<>>

\* back at minutes after a link was generated and, in the next pass, Back
\* was pressed at contact
C33_Witness ==
  /\ chatStep = "minutes" /\ openedLink # None /\ backPath = "fresh"
  /\ selectedPackage = None /\ contactChannel = Null /\ contactValue = <<>>
  /\ isTyping

====
